---- MODULE Spec2Model ----
(***************************************************************************)
(* Model of src/Bogosort.py: the batch-size calibration                    *)
(* (try_batch, find_optimal_batch) and the trial loop of main().           *)
(*                                                                         *)
(* Two specifications share the variables:                                 *)
(*   Spec      the whole run: calibration, then the trial loop, with the   *)
(*             KeyboardInterrupt signal as an environment action;          *)
(*   PipeSpec  the array pipeline of one iteration (lines 91-105) applied  *)
(*             step by step to every bounded rank matrix.                  *)
(*                                                                         *)
(* Scaling.  The source's batch sizes are 100_000 .. 10_000_000 rows; the  *)
(* model keeps the schedule strictly increasing but counts rows in small   *)
(* units so that a batch is an explicit matrix.  cp.random.rand draws      *)
(* floats in [0,1); only their order is read (by argsort), so a draw is a  *)
(* rank in 0..MaxRank, ties included.  A throughput batch_size / elapsed   *)
(* is an exact fraction [num, den].                                        *)
(***************************************************************************)
EXTENDS Integers, Sequences, FiniteSets, TLC

\* ---------------------------------------------------------------- bounds
\* number of candidates of the schedule (19 in the source)
NumCandidates == 3
\* largest elapsed time, in clock ticks, a probe can measure
MaxElapsed == 3
\* largest ARRAY_SIZE entered in Spec
MaxArraySize == 2
\* rank values drawn by cp.random.rand in Spec: 0..MaxRank
MaxRank == 1
\* iterations of the trial loop explored
MaxIter == 101
\* PipeSpec: largest ARRAY_SIZE, largest batch, largest rank value
PipeMaxN == 3
PipeMaxB == 1
PipeMaxRank == 2

\* ------------------------------------------------------ program constants
\* line 122: the progress cadence, in batches
ReportEvery == 50

\* line 27: the schedule of candidate batch sizes, strictly increasing
TEST_BATCHES == [c \in 1..NumCandidates |-> c]

VARIABLES
    pc,            \* control point of the run
    ARRAY_SIZE,    \* line 21
    cand,          \* find_optimal_batch: position of the for-loop in TEST_BATCHES
    best_speed,    \* find_optimal_batch: line 52, 61
    best_batch,    \* find_optimal_batch: line 52, 61
    ret,           \* value returned by find_optimal_batch (line 64, 69)
    pool_freed,    \* free_all_blocks() has been called (line 43)
    probed,        \* history: the probes made, in order: [b, oom, speed]
                   \* (oom: the allocation of lines 35-37 failed)
    batch_size,    \* main: line 84
    total_count,   \* main: line 86, 99
    rnd,           \* line 91 (kept in PipeSpec only)
    idx,           \* line 92 (kept in PipeSpec only)
    shuffled,      \* line 93
    results,       \* line 95
    found,         \* line 96
    found_index,   \* line 105
    exact_count,   \* line 108
    reports,       \* what has been printed: PROGRESS, SUCCESS, CANCELLED
    gen_count,     \* history: batches generated so far
    matched        \* history: global 1-based ordinals of the trials that matched

vars == << pc, ARRAY_SIZE, cand, best_speed, best_batch, ret, pool_freed, probed,
           batch_size, total_count, rnd, idx, shuffled, results, found,
           found_index, exact_count, reports, gen_count, matched >>

fobVars == << cand, best_speed, best_batch, ret, pool_freed, probed >>
arrVars == << rnd, idx, shuffled, results, found, found_index >>

\* ------------------------------------------------------------ throughput
\* a float throughput as an exact fraction; None is try_batch's OOM result
NoneSpeed == [none |-> TRUE, num |-> 0, den |-> 1]
ZeroSpeed == [none |-> FALSE, num |-> 0, den |-> 1]

\* mutant: the comparison of line 60 reversed
Gt_Reversed(s, t) == s.num * t.den < t.num * s.den

\* line 60: speed > best_speed
Gt(s, t) == s.num * t.den > t.num * s.den

\* what one probe can meet: an allocation failure, or a measured duration
\* (time.time() is not monotonic: the difference may be zero or negative)
Outcomes ==
    {[oom |-> TRUE, elapsed |-> 0]}
        \cup {[oom |-> FALSE, elapsed |-> e] : e \in -1..MaxElapsed}

\* mutant: the allocation failure is not caught and the probe is timed
try_batch_Uncaught(b, oc) ==
    IF oc.oom \/ oc.elapsed <= 0 THEN [none |-> FALSE, num |-> b, den |-> 1]
    ELSE [none |-> FALSE, num |-> b, den |-> oc.elapsed]

\* lines 32-44: the value try_batch returns
try_batch(b, oc) ==
    IF oc.oom THEN NoneSpeed
    ELSE IF oc.elapsed > 0 THEN [none |-> FALSE, num |-> b, den |-> oc.elapsed]
    ELSE ZeroSpeed

\* mutant: the check of line 65 dropped
NoViable_Dropped(bb) == FALSE

\* line 65: best_batch == 0
NoViable(bb) == bb = 0

\* ------------------------------------------------------ find_optimal_batch
\* mutant: the iteration skips a candidate of the schedule
Advance_Skip(c) == c + 2

\* line 53: the for-loop moves to the next candidate of the schedule
Advance(c) == c + 1

\* lines 53-64: one pass of the for-loop body
FobProbe ==
    /\ pc = "fob_for"
    /\ cand <= Len(TEST_BATCHES)
    /\ \E oc \in Outcomes :
         LET b == TEST_BATCHES[cand]
             speed == try_batch(b, oc)
         IN /\ probed' = Append(probed, [b |-> b, oom |-> oc.oom, speed |-> speed])
            /\ pool_freed' = (pool_freed \/ speed.none)
            /\ IF speed.none
               THEN /\ pc' = "fob_post"
                    /\ UNCHANGED << cand, best_speed, best_batch, ret >>
               ELSE IF Gt(speed, best_speed)
               THEN /\ best_speed' = speed
                    /\ best_batch' = b
                    /\ cand' = Advance(cand)
                    /\ pc' = "fob_for"
                    /\ UNCHANGED ret
               ELSE /\ ret' = best_batch
                    /\ pc' = "fob_returned"
                    /\ UNCHANGED << cand, best_speed, best_batch >>
    /\ UNCHANGED << ARRAY_SIZE, batch_size, total_count, arrVars, exact_count,
                    reports, gen_count, matched >>

\* line 53: the schedule is exhausted
FobExhausted ==
    /\ pc = "fob_for"
    /\ cand > Len(TEST_BATCHES)
    /\ pc' = "fob_post"
    /\ UNCHANGED << ARRAY_SIZE, fobVars, batch_size, total_count, arrVars,
                    exact_count, reports, gen_count, matched >>

\* lines 65-69: after the loop
FobPost ==
    /\ pc = "fob_post"
    /\ IF NoViable(best_batch)
       THEN /\ pc' = "exited"
            /\ UNCHANGED ret
       ELSE /\ ret' = best_batch
            /\ pc' = "fob_returned"
    /\ UNCHANGED << ARRAY_SIZE, cand, best_speed, best_batch, pool_freed, probed,
                    batch_size, total_count, arrVars, exact_count, reports,
                    gen_count, matched >>

\* --------------------------------------------------------- array pipeline
\* line 30: cp.arange(ARRAY_SIZE).reshape(1, -1), the single row 0 .. N-1
sorted_arr == [j \in 1..ARRAY_SIZE |-> j - 1]

\* line 91: cp.random.rand(b, n), every b x n matrix of ranks 0..mr
rand(b, n, mr) == [1..b -> [1..n -> 0..mr]]

\* line 92, one row: every index order (0-based) that sorts the row ascending;
\* rows with tied values have several, and the library may return any of them
ArgsortRow(row) ==
    {p \in [1..Len(row) -> 0..(Len(row) - 1)] :
        /\ \A a, c \in 1..Len(row) : a # c => p[a] # p[c]
        /\ \A a, c \in 1..Len(row) : a < c => row[p[a] + 1] <= row[p[c] + 1]}

\* the index matrices for the first k rows of m
RECURSIVE ArgsortRows(_, _)
ArgsortRows(m, k) ==
    IF k = 0 THEN {<< >>}
    ELSE {Append(ix, p) : ix \in ArgsortRows(m, k - 1), p \in ArgsortRow(m[k])}

\* line 92: cp.argsort(m, axis=1), the set of matrices it may return
argsort(m) == ArgsortRows(m, Len(m))

\* mutant: the gather reads the index of the first column for every column
take_along_axis_FirstColumn(a, ix) ==
    [r \in DOMAIN ix |-> [c \in DOMAIN ix[r] |-> a[ix[r][1] + 1]]]

\* lines 37, 93: cp.take_along_axis(a, ix, axis=1) with a of shape (1, N)
\* broadcast over the rows of ix
take_along_axis(a, ix) ==
    [r \in DOMAIN ix |-> [c \in DOMAIN ix[r] |-> a[ix[r][c] + 1]]]

\* lines 91-93 for one row: the rows a batch can hold
ShuffledRows(n, mr) ==
    UNION {{take_along_axis(sorted_arr, << p >>)[1] : p \in ArgsortRow(row)} :
              row \in [1..n -> 0..mr]}

\* line 95: cp.all(shuf == sa, axis=1), sa broadcast over the rows
all_equal(shuf, sa) ==
    [r \in DOMAIN shuf |-> \A c \in DOMAIN sa : shuf[r][c] = sa[c]]

\* line 96: cp.any(v)
any(v) == \E r \in DOMAIN v : v[r]

\* cp.argmax scans left to right and keeps the first position of the largest
\* value (FALSE < TRUE); best is the position kept so far
RECURSIVE ArgmaxScan(_, _, _)
ArgmaxScan(v, j, best) ==
    IF j > Len(v) THEN best
    ELSE ArgmaxScan(v, j + 1, IF v[j] /\ ~v[best] THEN j ELSE best)

\* mutant: the scan keeps the last position of the largest value
argmax_Last(v) ==
    (CHOOSE j \in DOMAIN v :
        /\ \A k \in DOMAIN v : v[k] => v[j]
        /\ \A k \in DOMAIN v : (k > j) => (v[k] # v[j])) - 1

\* lines 103-105: cp.argmax(v).item(), a 0-based index
argmax(v) == ArgmaxScan(v, 2, 1) - 1

\* mutant: the batch is counted one trial short
AddBatch_Short(total, b) == IF b > 0 THEN total + b - 1 ELSE total

\* line 99: total_count += batch_size
AddBatch(total, b) == total + b

\* mutant: the 1-based correction of line 108 forgotten
ExactCount_ZeroBased(total, b, fi) == (total - b) + fi

\* line 108: exact_count
ExactCount(total, b, fi) == (total - b) + (fi + 1)

\* history: the global 1-based ordinals of the rows of batch number g (1-based)
\* that equal the sorted array
MatchOrdinals(shuf, g, b) ==
    {(g - 1) * b + r : r \in {q \in DOMAIN shuf : shuf[q] = sorted_arr}}

Report(kind, total, exact) == [kind |-> kind, total |-> total, exact |-> exact]

\* ------------------------------------------------------------------ main
\* control points inside the try block of main (lines 88-135)
TryPcs == {"gen", "match", "count", "check", "report", "break", "gate"}

\* lines 84-89: the calibrated size is bound, the counter starts at 0;
\* find_optimal_batch's frame (its locals) is gone
MainStart ==
    /\ pc = "fob_returned"
    /\ batch_size' = ret
    /\ total_count' = 0
    /\ cand' = 1
    /\ best_speed' = ZeroSpeed
    /\ best_batch' = 0
    /\ probed' = << >>
    /\ pc' = "gen"
    /\ UNCHANGED << ARRAY_SIZE, ret, pool_freed, arrVars, exact_count, reports,
                    gen_count, matched >>

\* lines 91-93: one batch of batch_size shuffled rows
Generate ==
    /\ pc = "gen"
    /\ gen_count < MaxIter
    /\ shuffled' \in [1..batch_size -> ShuffledRows(ARRAY_SIZE, MaxRank)]
    /\ gen_count' = gen_count + 1
    /\ matched' = matched \cup MatchOrdinals(shuffled', gen_count + 1, batch_size)
    /\ pc' = "match"
    /\ UNCHANGED << ARRAY_SIZE, fobVars, batch_size, total_count, rnd, idx,
                    results, found, found_index, exact_count, reports >>

\* lines 91-96: an allocation of the iteration fails (the rank matrix, the
\* index matrix, the batch, or the comparison result).  cupy raises
\* OutOfMemoryError; main has no handler for it (the try of line 88 catches
\* KeyboardInterrupt only), so it leaves main uncaught: the program prints
\* no report and free_all_blocks() is not called
LoopOOM ==
    /\ pc \in {"gen", "match"}
    /\ batch_size > 0
    /\ pc' = "oom_uncaught"
    /\ UNCHANGED << ARRAY_SIZE, fobVars, batch_size, total_count, arrVars,
                    exact_count, reports, gen_count, matched >>

\* lines 95-96
Match ==
    /\ pc = "match"
    /\ results' = all_equal(shuffled, sorted_arr)
    /\ found' = any(results')
    /\ pc' = "count"
    /\ UNCHANGED << ARRAY_SIZE, fobVars, batch_size, total_count, rnd, idx,
                    shuffled, found_index, exact_count, reports, gen_count,
                    matched >>

\* line 99
Count ==
    /\ pc = "count"
    /\ total_count' = AddBatch(total_count, batch_size)
    /\ pc' = "check"
    /\ UNCHANGED << ARRAY_SIZE, fobVars, batch_size, arrVars, exact_count,
                    reports, gen_count, matched >>

\* mutant: the progress gate is tested before the match result, so at a
\* reporting iteration the loop goes to the gate whatever the batch holds
CheckFound_GateFirst ==
    /\ pc = "check"
    /\ IF batch_size > 0 /\ total_count % (batch_size * ReportEvery) = 0
       THEN /\ pc' = "gate"
            /\ UNCHANGED << found_index, exact_count >>
       ELSE IF found
       THEN /\ found_index' = argmax(results)
            /\ exact_count' = ExactCount(total_count, batch_size, found_index')
            /\ pc' = "report"
       ELSE /\ pc' = "gate"
            /\ UNCHANGED << found_index, exact_count >>
    /\ UNCHANGED << ARRAY_SIZE, fobVars, batch_size, total_count, rnd, idx,
                    shuffled, results, found, reports, gen_count, matched >>

\* lines 101-108
CheckFound ==
    /\ pc = "check"
    /\ IF found
       THEN /\ found_index' = argmax(results)
            /\ exact_count' = ExactCount(total_count, batch_size, found_index')
            /\ pc' = "report"
       ELSE /\ pc' = "gate"
            /\ UNCHANGED << found_index, exact_count >>
    /\ UNCHANGED << ARRAY_SIZE, fobVars, batch_size, total_count, rnd, idx,
                    shuffled, results, found, reports, gen_count, matched >>

\* lines 110-118: the SUCCESS report
ReportSuccess ==
    /\ pc = "report"
    /\ reports' = Append(reports, Report("SUCCESS", total_count, exact_count))
    /\ pc' = "break"
    /\ UNCHANGED << ARRAY_SIZE, fobVars, batch_size, total_count, arrVars,
                    exact_count, gen_count, matched >>

\* line 119: break; main returns
Break ==
    /\ pc = "break"
    /\ pc' = "done"
    /\ UNCHANGED << ARRAY_SIZE, fobVars, batch_size, total_count, arrVars,
                    exact_count, reports, gen_count, matched >>

\* mutant: the cadence is taken in trials instead of batches
IsReportTurn_InTrials(total, b) == total % ReportEvery = 0

\* line 122: total_count % (batch_size * 50) == 0, for batch_size > 0
IsReportTurn(total, b) == total % (b * ReportEvery) = 0

\* lines 122-135: the progress gate; a zero batch size makes the modulus of
\* line 122 raise ZeroDivisionError, which no handler catches.  On the way
\* back to line 91 the batch of this iteration is dead (shuffled, results and
\* found are rebound by lines 93-96 before they are read again), so the
\* loop-back drops it: states that differ only in a dead batch coincide.
Gate ==
    /\ pc = "gate"
    /\ IF batch_size * ReportEvery = 0
       THEN /\ pc' = "crashed"
            /\ UNCHANGED << reports, shuffled, results >>
       ELSE /\ reports' = IF IsReportTurn(total_count, batch_size)
                          THEN Append(reports, Report("PROGRESS", total_count, 0))
                          ELSE reports
            /\ shuffled' = << >>
            /\ results' = << >>
            /\ pc' = "gen"
    /\ UNCHANGED << ARRAY_SIZE, fobVars, batch_size, total_count, rnd, idx, found,
                    found_index, exact_count, gen_count, matched >>

\* mutant: the handler first counts the batch in flight, as if the iteration
\* had been allowed to finish
KeyboardInterrupt_Completing ==
    /\ pc \in TryPcs
    /\ total_count' = gen_count * batch_size
    /\ reports' = Append(reports, Report("CANCELLED", total_count', 0))
    /\ pc' = "done"
    /\ UNCHANGED << ARRAY_SIZE, fobVars, batch_size, arrVars, exact_count,
                    gen_count, matched >>

\* lines 137-145: KeyboardInterrupt raised anywhere inside the try block
KeyboardInterrupt ==
    /\ pc \in TryPcs
    /\ reports' = Append(reports, Report("CANCELLED", total_count, 0))
    /\ pc' = "done"
    /\ UNCHANGED << ARRAY_SIZE, fobVars, batch_size, total_count, arrVars,
                    exact_count, gen_count, matched >>

\* mutant: the handler of line 137 also covers the call of line 84
KeyboardInterruptOutside_Reported ==
    /\ pc \in {"fob_for", "fob_post", "fob_returned"}
    /\ reports' = Append(reports, Report("CANCELLED", total_count, 0))
    /\ pc' = "killed"
    /\ UNCHANGED << ARRAY_SIZE, fobVars, batch_size, total_count, arrVars,
                    exact_count, gen_count, matched >>

\* KeyboardInterrupt raised before the try block is entered (lines 84-87,
\* try_batch's handlers catch only OutOfMemoryError and Exception)
KeyboardInterruptOutside ==
    /\ pc \in {"fob_for", "fob_post", "fob_returned"}
    /\ pc' = "killed"
    /\ UNCHANGED << ARRAY_SIZE, fobVars, batch_size, total_count, arrVars,
                    exact_count, reports, gen_count, matched >>

Init ==
    /\ pc = "fob_for"
    /\ ARRAY_SIZE \in 1..MaxArraySize
    /\ cand = 1
    /\ best_speed = ZeroSpeed
    /\ best_batch = 0
    /\ ret = 0
    /\ pool_freed = FALSE
    /\ probed = << >>
    /\ batch_size = 0
    /\ total_count = 0
    /\ rnd = << >>
    /\ idx = << >>
    /\ shuffled = << >>
    /\ results = << >>
    /\ found = FALSE
    /\ found_index = 0
    /\ exact_count = 0
    /\ reports = << >>
    /\ gen_count = 0
    /\ matched = {}

Next ==
    \/ FobProbe
    \/ FobExhausted
    \/ FobPost
    \/ MainStart
    \/ Generate
    \/ LoopOOM
    \/ Match
    \/ Count
    \/ CheckFound
    \/ ReportSuccess
    \/ Break
    \/ Gate
    \/ KeyboardInterrupt
    \/ KeyboardInterruptOutside

Spec == Init /\ [][Next]_vars

\* find_optimal_batch alone (line 84 up to its return or sys.exit); every
\* pass of its loop body completes, try_batch returns a value or None
CalNext ==
    \/ FobProbe
    \/ FobExhausted
    \/ FobPost

CalSpec == Init /\ [][CalNext]_vars /\ WF_vars(CalNext)

\* ------------------------------------------------- the pipeline, stepwise
\* lines 91-105 applied to bounded inputs, one array operation per step
PipeInit ==
    /\ pc = "pipe_rand"
    /\ ARRAY_SIZE \in 1..PipeMaxN
    /\ batch_size \in 1..PipeMaxB
    /\ cand = 1
    /\ best_speed = ZeroSpeed
    /\ best_batch = 0
    /\ ret = 0
    /\ pool_freed = FALSE
    /\ probed = << >>
    /\ total_count = 0
    /\ rnd = << >>
    /\ idx = << >>
    /\ shuffled = << >>
    /\ results = << >>
    /\ found = FALSE
    /\ found_index = 0
    /\ exact_count = 0
    /\ reports = << >>
    /\ gen_count = 0
    /\ matched = {}

pipeFixed == << ARRAY_SIZE, fobVars, batch_size, total_count, exact_count,
                reports, gen_count, matched >>

\* line 91
PipeRand ==
    /\ pc = "pipe_rand"
    /\ rnd' \in rand(batch_size, ARRAY_SIZE, PipeMaxRank)
    /\ pc' = "pipe_argsort"
    /\ UNCHANGED << pipeFixed, idx, shuffled, results, found, found_index >>

\* line 92
PipeArgsort ==
    /\ pc = "pipe_argsort"
    /\ idx' \in argsort(rnd)
    /\ pc' = "pipe_gather"
    /\ UNCHANGED << pipeFixed, rnd, shuffled, results, found, found_index >>

\* line 93
PipeGather ==
    /\ pc = "pipe_gather"
    /\ shuffled' = take_along_axis(sorted_arr, idx)
    /\ pc' = "pipe_match"
    /\ UNCHANGED << pipeFixed, rnd, idx, results, found, found_index >>

\* lines 95-96
PipeMatch ==
    /\ pc = "pipe_match"
    /\ results' = all_equal(shuffled, sorted_arr)
    /\ found' = any(results')
    /\ pc' = "pipe_argmax"
    /\ UNCHANGED << pipeFixed, rnd, idx, shuffled, found_index >>

\* lines 101-105
PipeArgmax ==
    /\ pc = "pipe_argmax"
    /\ found
    /\ found_index' = argmax(results)
    /\ pc' = "pipe_done"
    /\ UNCHANGED << pipeFixed, rnd, idx, shuffled, results, found >>

PipeNext ==
    \/ PipeRand
    \/ PipeArgsort
    \/ PipeGather
    \/ PipeMatch
    \/ PipeArgmax

PipeSpec == PipeInit /\ [][PipeNext]_vars
\* =================================================================
\* Properties
\* =================================================================

\* the probes made so far and the last of them
NProbed == Len(probed)
\* throughput s is higher than throughput t
Higher(s, t) == s.num * t.den > t.num * s.den
Positive(s) == (~s.none) /\ Higher(s, ZeroSpeed)

\* find_optimal_batch returned from inside the loop (line 64): the last
\* probe was timed and the for-loop did not advance past it
ReturnedOnRegression ==
    /\ pc = "fob_returned"
    /\ NProbed >= 1
    /\ ~probed[NProbed].oom
    /\ cand = NProbed

\* j is a candidate probed before position n whose throughput none of the
\* candidates before n exceeds
BestBefore(j, n) ==
    /\ j \in 1..(n - 1)
    /\ ~probed[j].oom
    /\ \A i \in 1..(n - 1) : ~Higher(probed[i].speed, probed[j].speed)

\* the rows (1-based positions) of the current batch equal to the sorted array
MatchingRows == {r \in DOMAIN shuffled : shuffled[r] = sorted_arr}

\* the number of positions of row that hold v
CountOf(row, v) == Cardinality({c \in DOMAIN row : row[c] = v})

IsPermutationOf(row, base) ==
    /\ Len(row) = Len(base)
    /\ \A c \in DOMAIN base : CountOf(row, base[c]) = CountOf(base, base[c])
    /\ \A c \in DOMAIN row : CountOf(row, row[c]) = CountOf(base, row[c])

HasReport(kind) == \E i \in DOMAIN reports : reports[i].kind = kind

\* this step prints the CANCELLED report
CancelStep ==
    /\ Len(reports') = Len(reports) + 1
    /\ reports'[Len(reports')].kind = "CANCELLED"

\* a step taken inside the try block keeps the batch size and either leaves
\* total_count alone or, at line 99, adds the batch size to it
CountingStep ==
    pc \in TryPcs =>
        /\ batch_size' = batch_size
        /\ \/ total_count' = total_count
           \/ /\ pc = "count"
              /\ total_count' = total_count + batch_size

\* a step that prints CANCELLED does nothing else
CancelOnly ==
    CancelStep =>
        /\ pc \in TryPcs
        /\ pc' = "done"
        /\ total_count' = total_count
        /\ gen_count' = gen_count
        /\ reports' = Append(reports, Report("CANCELLED", total_count, 0))

\* ----------------------------------------------------------------- C1
\* C1: in the trial loop total_count is k x B* once k iterations have passed
\* their counting step (line 99), B* being the value find_optimal_batch
\* returned; total_count never decreases, every change is +B*, and the batch
\* size does not change between iterations.
C1_TotalIsIterationsTimesBatch ==
    /\ [](pc \in TryPcs =>
            /\ batch_size = ret
            /\ (pc \in {"check", "report", "break", "gate", "gen"}
                  => total_count = gen_count * batch_size)
            /\ (pc \in {"match", "count"}
                  => total_count = (gen_count - 1) * batch_size))
    /\ [][CountingStep]_vars

\* C1 witness: three iterations at B* = 2 have been counted
C1_Witness ==
    pc = "check" /\ gen_count = 3 /\ batch_size = 2 /\ total_count = 6

\* ----------------------------------------------------------------- C2
\* C2: a SUCCESS report at iteration k carries exact_count =
\* (k-1) B* + first_match_index + 1, the smallest global ordinal of a trial
\* that matched; total - B* < exact_count <= total and
\* (exact_count - 1) // B* + 1 <= k.
C2_ExactCountIsFirstGlobalMatch ==
    \A i \in DOMAIN reports :
        reports[i].kind = "SUCCESS" =>
            LET e == reports[i].exact
                t == reports[i].total
            IN /\ batch_size >= 1
               /\ t = gen_count * batch_size
               /\ e = (gen_count - 1) * batch_size + found_index + 1
               /\ e \in matched
               /\ \A o \in matched : e <= o
               /\ t - batch_size < e
               /\ e <= t
               /\ ((e - 1) \div batch_size) + 1 <= gen_count

\* C2 witness: success in the second batch of three rows, at row index 1,
\* with a later row matching too: exact_count = 5
C2_Witness ==
    /\ HasReport("SUCCESS")
    /\ gen_count = 2
    /\ batch_size = 3
    /\ found_index = 1
    /\ exact_count = 5
    /\ matched = {5, 6}

\* ----------------------------------------------------------------- C3
\* C3: the match step reports found = TRUE iff some row of the batch equals
\* the sorted array elementwise, and when it does found_index is the smallest
\* (0-based) index of such a row.
C3_MatchStep ==
    /\ (pc \in {"count", "check", "report", "break", "gate"} =>
          /\ Len(results) = Len(shuffled)
          /\ \A r \in DOMAIN shuffled : results[r] = (r \in MatchingRows)
          /\ found = (MatchingRows # {}))
    /\ (pc \in {"report", "break"} =>
          /\ MatchingRows # {}
          /\ found_index + 1 \in MatchingRows
          /\ \A r \in MatchingRows : found_index + 1 <= r)

\* C3 witness: a batch of three rows of which the second and third match
C3_Witness ==
    /\ pc = "report"
    /\ results = << FALSE, TRUE, TRUE >>
    /\ found
    /\ found_index = 1

\* ----------------------------------------------------------------- C4
\* C4: every row that argsort-then-gather produces is a permutation of the
\* sorted array: length N and the same multiset of elements, also when the
\* rank matrix has tied values in a row.
C4_RowsArePermutations ==
    pc \in {"pipe_match", "pipe_argmax", "pipe_done"} =>
        /\ Len(shuffled) = batch_size
        /\ \A r \in DOMAIN shuffled : IsPermutationOf(shuffled[r], sorted_arr)

\* C4 witness: a row with two tied ranks, sorted by an order a stable sort
\* would not give
C4_Witness ==
    /\ pc = "pipe_match"
    /\ ARRAY_SIZE = 3
    /\ rnd[1] = << 1, 0, 1 >>
    /\ idx[1] = << 1, 2, 0 >>
    /\ shuffled[1] = << 1, 2, 0 >>

C6_AsStated ==
    /\ (pc = "fob_returned" => \E i \in DOMAIN probed : Positive(probed[i].speed))
    /\ (pc \in TryPcs => batch_size >= 1)

\* the last candidate probed is the first that does not strictly exceed the
\* best before it, the candidates were probed in schedule order, and the
\* value returned is the best candidate probed before it
StoppedAtFirstRegression ==
    /\ \A i \in 1..NProbed : probed[i].b = TEST_BATCHES[i]
    /\ \A i \in 1..(NProbed - 1) :
          /\ ~probed[i].oom
          /\ \A j \in 1..(i - 1) : Higher(probed[i].speed, probed[j].speed)
          /\ Positive(probed[i].speed)
    /\ \E j \in 1..(NProbed - 1) :
          /\ BestBefore(j, NProbed)
          /\ ~Higher(probed[NProbed].speed, probed[j].speed)
          /\ ret = probed[j].b

\* ----------------------------------------------------------------- C7
\* C7 as stated: when find_optimal_batch stops on a candidate that does not
\* strictly exceed the best so far, that candidate is the first such one,
\* none after it was probed, and the value returned is the previous best
\* candidate of the schedule.
C7_AsStated ==
    ReturnedOnRegression => StoppedAtFirstRegression

\* C7, the part the code satisfies: the same, for a regression met at the
\* second candidate or later
C7_FromSecondCandidate ==
    (ReturnedOnRegression /\ NProbed >= 2) => StoppedAtFirstRegression

\* ----------------------------------------------------------------- C8
\* C8: a candidate whose probe raised the out-of-memory condition is never
\* returned: it is the last candidate probed, the pool has been freed, and
\* if a batch size is returned it is the best candidate recorded before it.
C8_OomCandidateNeverReturned ==
    \A i \in DOMAIN probed :
        probed[i].oom =>
            /\ i = NProbed
            /\ pool_freed
            /\ pc \in {"fob_post", "fob_returned", "exited", "killed"}
            /\ (pc = "fob_returned" =>
                  /\ ret # probed[i].b
                  /\ \E j \in 1..(i - 1) : BestBefore(j, i) /\ ret = probed[j].b)

\* C8 witness: the third candidate ran out of memory, the second is returned
C8_Witness ==
    /\ pc = "fob_returned"
    /\ NProbed = 3
    /\ probed[3].oom
    /\ pool_freed
    /\ ret = 2

\* ----------------------------------------------------------------- C9
\* C9: when find_optimal_batch returns a batch size, best_speed is the
\* throughput recorded for it and no candidate examined, the one it stopped
\* on included, measured a higher throughput.
C9_ReturnedSpeedIsMaximal ==
    pc = "fob_returned" =>
        /\ ret = best_batch
        /\ \A i \in DOMAIN probed :
              ~probed[i].oom => ~Higher(probed[i].speed, best_speed)
        /\ (ret # 0 =>
              \E j \in DOMAIN probed :
                  probed[j].b = ret /\ probed[j].speed = best_speed)

\* C9 witness: throughputs 1/2, 2/1, 3/2: the third regresses, 2 is returned
C9_Witness ==
    /\ pc = "fob_returned"
    /\ NProbed = 3
    /\ probed[1].speed = [none |-> FALSE, num |-> 1, den |-> 2]
    /\ probed[2].speed = [none |-> FALSE, num |-> 2, den |-> 1]
    /\ probed[3].speed = [none |-> FALSE, num |-> 3, den |-> 2]
    /\ ret = 2

\* ----------------------------------------------------------------- C10
\* C10: if the probe of the first candidate raises the out-of-memory
\* condition, calibration ends in the error exit (sys.exit(1)) and no batch
\* size is returned.
C10_FirstCandidateOomFails ==
    (NProbed >= 1 /\ probed[1].oom) =>
        /\ pc \in {"fob_post", "exited", "killed"}
        /\ ret = 0
        /\ batch_size = 0

\* C10 witness: the error exit after the first candidate ran out of memory
C10_Witness ==
    pc = "exited" /\ NProbed = 1 /\ probed[1].oom

\* the PROGRESS reports printed so far
ProgressTotals == {reports[i].total : i \in {j \in DOMAIN reports : reports[j].kind = "PROGRESS"}}

\* once a batch with a match has been generated, no batch is generated after
\* it, and the step taken at line 101 goes to the SUCCESS report unless the
\* run is cancelled there; only a KeyboardInterrupt or a failed allocation
\* ends the iteration otherwise
MatchStopsLoop ==
    matched' # {} =>
        /\ (matched # {} => gen_count' = gen_count)
        /\ ~(pc' \in {"gate", "gen"})
        /\ (pc' = "oom_uncaught" => pc = "match")
        /\ (pc' = "done" => pc = "break" \/ reports'[Len(reports')].kind = "CANCELLED")
        /\ ((pc = "check" /\ pc' # "done") => pc' = "report")
        /\ ((pc = "report" /\ pc' # "done") =>
               reports' = Append(reports, Report("SUCCESS", total_count, exact_count)))

ProgressStep ==
    /\ Len(reports') = Len(reports) + 1
    /\ reports'[Len(reports')].kind = "PROGRESS"

\* the iterations that have run to the loop-back: all but the current one,
\* and the current one too when control is back at line 91
CompletedIterations ==
    IF pc = "gen" THEN 1..gen_count ELSE 1..(gen_count - 1)

\* a PROGRESS report is printed only by the gate, with the current
\* total_count, in an iteration without a match whose number is a multiple
\* of 50; and the gate of such an iteration prints one
GateReports ==
    /\ ProgressStep =>
          /\ pc = "gate"
          /\ ~found
          /\ MatchingRows = {}
          /\ gen_count % ReportEvery = 0
          /\ total_count = gen_count * batch_size
          /\ total_count % (batch_size * ReportEvery) = 0
          /\ total_count' = total_count
          /\ reports' = Append(reports, Report("PROGRESS", total_count, 0))
    /\ (pc = "gate" /\ pc' = "gen" /\ gen_count % ReportEvery = 0) => ProgressStep

\* ----------------------------------------------------------------- C12
\* C12: a PROGRESS report is printed in iteration k iff the batch of
\* iteration k has no match and k is a multiple of 50 (total_count = k B* a
\* multiple of 50 B*); it carries the current total_count.
C12_ProgressCadence ==
    /\ [](/\ \A t \in ProgressTotals :
                /\ batch_size >= 1
                /\ \E k \in 1..gen_count :
                      k % ReportEvery = 0 /\ t = k * batch_size
                /\ \A o \in matched : o > t
          /\ \A k \in CompletedIterations :
                k % ReportEvery = 0 => k * batch_size \in ProgressTotals
          /\ \A i, j \in DOMAIN reports :
                (reports[i].kind = "PROGRESS" /\ reports[j].kind = "PROGRESS"
                    /\ reports[i].total = reports[j].total) => i = j)
    /\ [][GateReports]_vars

\* C12 witness: 100 iterations without a match at B* = 2: reports at totals
\* 100 and 200 and no other
C12_Witness ==
    /\ pc = "gen"
    /\ gen_count = 2 * ReportEvery
    /\ batch_size = 2
    /\ ProgressTotals = {2 * ReportEvery, 4 * ReportEvery}
    /\ Len(reports) = 2

\* ----------------------------------------------------------------- C13
\* C13 as stated: an allocation failure in a trial-loop iteration is caught
\* by the loop, which releases the pooled memory and prints a fatal report;
\* the run stops without SUCCESS or CANCELLED and runs no further iteration.
C13_AsStated ==
    pc = "oom_uncaught" =>
        /\ pool_freed
        /\ HasReport("FATAL")
        /\ ~HasReport("SUCCESS")
        /\ ~HasReport("CANCELLED")

\* C13, the part the code satisfies: after the failure the run has stopped
\* without SUCCESS or CANCELLED
C13_StopsWithoutTerminalReport ==
    pc = "oom_uncaught" => (~HasReport("SUCCESS") /\ ~HasReport("CANCELLED"))

\* the terminal reports printed so far
TerminalReports ==
    {i \in DOMAIN reports : reports[i].kind \in {"SUCCESS", "CANCELLED"}}

\* after a terminal report no batch is generated and total_count is fixed
FrozenAfterTerminal ==
    TerminalReports # {} =>
        /\ gen_count' = gen_count
        /\ total_count' = total_count
        /\ shuffled' = shuffled

\* ----------------------------------------------------------------- C14
\* C14 as stated: a run of the trial loop prints at most one terminal
\* report, SUCCESS or CANCELLED and never both, also when the cancellation
\* arrives while the SUCCESS report is being produced.
C14_AsStated ==
    Cardinality(TerminalReports) <= 1

\* C14, the part the code satisfies: after a terminal report no further
\* batch is generated and total_count no longer changes; a CANCELLED report
\* is the last report and SUCCESS is printed at most once
C14_NothingAfterTerminal ==
    /\ [][FrozenAfterTerminal]_vars
    /\ [](\A i \in TerminalReports :
              /\ reports[i].kind = "CANCELLED" => i = Len(reports)
              /\ reports[i].kind = "SUCCESS" =>
                    \A j \in TerminalReports : reports[j].kind = "SUCCESS" => j = i)

\* candidate number i of the probes improved on everything probed before it
\* (the best so far starts at 0)
Improved(i) ==
    /\ ~probed[i].oom
    /\ Positive(probed[i].speed)
    /\ \A j \in 1..(i - 1) : Higher(probed[i].speed, probed[j].speed)

\* find_optimal_batch has left its loop
Halted == pc \in {"fob_post", "fob_returned", "exited"}

\* the probes follow the schedule from its first candidate, one probe each
InScheduleOrder ==
    /\ NProbed <= Len(TEST_BATCHES)
    /\ \A i \in 1..NProbed : probed[i].b = TEST_BATCHES[i]
    /\ \A i, j \in 1..NProbed : i < j => probed[i].b < probed[j].b

\* the loop runs only while every probe improved, and it is left only on an
\* out-of-memory candidate, on a candidate that does not improve, or with the
\* schedule exhausted
HaltsWhenItShould ==
    /\ \A i \in 1..(NProbed - 1) : Improved(i)
    /\ (pc = "fob_for" => \A i \in 1..NProbed : Improved(i))
    /\ (Halted =>
            \/ NProbed >= 1 /\ probed[NProbed].oom
            \/ NProbed >= 1 /\ ~Improved(NProbed)
            \/ NProbed = Len(TEST_BATCHES))

\* ----------------------------------------------------------------- C15
\* C15: find_optimal_batch always terminates; it probes the candidates in
\* strictly increasing schedule order, each at most once; it halts on the
\* first out-of-memory candidate, on the first candidate that does not
\* improve, or after the last candidate; when every candidate improves on
\* the previous best it returns the last candidate of the schedule.
C15_CalibrationTerminates ==
    /\ <>(pc \in {"fob_returned", "exited"})
    /\ [](InScheduleOrder /\ HaltsWhenItShould)
    /\ []((pc \in {"fob_returned", "exited"}
              /\ NProbed = Len(TEST_BATCHES)
              /\ \A i \in 1..NProbed : Improved(i))
            => (pc = "fob_returned" /\ ret = TEST_BATCHES[Len(TEST_BATCHES)]))

\* every candidate of the schedule was probed and improved, and the last one
\* is returned
C15_Witness ==
    /\ pc = "fob_returned"
    /\ NProbed = Len(TEST_BATCHES)
    /\ \A i \in 1..NProbed : Improved(i)
    /\ ret = TEST_BATCHES[Len(TEST_BATCHES)]
    /\ cand = Len(TEST_BATCHES) + 1

\* the process ended by the interrupt does nothing more
KilledIsFinal == pc = "killed" => UNCHANGED vars

\* ----------------------------------------------------------------- C16
\* C16: a KeyboardInterrupt that arrives during calibration, before the try
\* block of the trial loop is entered, is not turned into a CANCELLED
\* report: nothing is reported, the trial loop never starts (no batch size
\* bound, no batch generated) and total_count is never incremented.
C16_InterruptInCalibrationUnreported ==
    /\ [](pc = "killed" =>
              /\ reports = << >>
              /\ batch_size = 0
              /\ gen_count = 0
              /\ shuffled = << >>
              /\ matched = {}
              /\ total_count = 0)
    /\ [][KilledIsFinal]_vars

\* the interrupt arrived after two candidates had been probed
C16_Witness ==
    /\ pc = "killed"
    /\ NProbed = 2
    /\ reports = << >>
====
